---- MODULE Spec2Model ----
(***************************************************************************)
(* A model of delink (src/src/main.rs): exec walks a list of input paths   *)
(* and replaces every symbolic link it meets by a copy of what the link    *)
(* resolves to.  The filesystem is a finite map from absolute paths        *)
(* (sequences of names, <<>> is the root directory) to entries; the        *)
(* recursion of relink is an explicit stack of frames, one step of the     *)
(* model per filesystem call or report line of the code.                   *)
(***************************************************************************)
EXTENDS Naturals, Sequences, FiniteSets

VARIABLES fs,       \* the filesystem: path -> entry
          fs0,      \* the filesystem before the first run (history)
          fs1,      \* the filesystem when the current run started (history)
          fsIn,     \* the filesystem when exec took the current input (history)
          mark,     \* length of log when the current run started (history)
          inputs,   \* the paths handed to exec
          idx,      \* number of inputs exec has taken from the iterator
          stack,    \* the call stack of relink, innermost frame last
          log,      \* report lines and filesystem mutations, in order
          result,   \* "run", "ok", "err" or "panic"
          errno,    \* the error exec returned, "" when none
          run,      \* 1 for the first call of exec, 2 for the repeated one
          build     \* "debug" when debug assertions are compiled in, "release"
                    \* when not, "unknown" while no assertion has failed yet

vars == <<fs, fs0, fs1, fsIn, mark, inputs, idx, stack, log, result, errno, run, build>>

(***************************************************************************)
(* Bounds of the model.                                                    *)
(***************************************************************************)
\* longest path (in components) the operating system accepts
PathMax == 4
\* symbolic links one path resolution may follow before the system reports
\* a filesystem loop
MaxSymlinks == 2
\* longest input list
MaxInputs == 2

\* the raw OS error resolve_symlink recovers from
SelfRefErrno == 40

Names == {"a", "b"}
Root == <<>>
\* the working directory of the process
Cwd == Root

(***************************************************************************)
(* Entries and paths.                                                      *)
(***************************************************************************)
\* data is the content of a regular file, <<>> the empty content; target is
\* what a link holds, relative to the link's directory when rel is TRUE
FileEntry(d) == [kind |-> "file", data |-> d, rel |-> FALSE, target |-> <<>>]
DirEntry == [kind |-> "dir", data |-> <<>>, rel |-> FALSE, target |-> <<>>]
LinkEntry(r, t) == [kind |-> "link", data |-> <<>>, rel |-> r, target |-> t]

\* Path::parent
Parent(p) == SubSeq(p, 1, Len(p) - 1)

\* Path::starts_with: base is a component-wise prefix of p
StartsWith(p, base) ==
    /\ Len(base) <= Len(p)
    /\ SubSeq(p, 1, Len(base)) = base

\* the names a directory holds
Members(f, d) ==
    {p[Len(p)] : p \in {q \in DOMAIN f : Len(q) = Len(d) + 1 /\ StartsWith(q, d)}}

Res(st, p, final) == [st |-> st, p |-> p, final |-> final]

(***************************************************************************)
(* Path resolution as the operating system does it.  cur is the real       *)
(* directory reached so far, rest the components still to walk, fuel the   *)
(* number of links that may still be followed.  With nofollow a link in    *)
(* the last position is the answer itself (lstat, unlink, mkdir).  A       *)
(* missing component answers ENOENT, with final = TRUE and p the place of  *)
(* the missing entry when only the last component is missing.              *)
(***************************************************************************)
RECURSIVE Walk(_, _, _, _, _)
Walk(f, cur, rest, fuel, nofollow) ==
    IF rest = <<>> THEN Res("ok", cur, TRUE)
    ELSE LET next == Append(cur, Head(rest))
             more == Tail(rest)
         IN  IF next \notin DOMAIN f THEN Res("ENOENT", next, more = <<>>)
             ELSE IF f[next].kind = "link" THEN
                 IF more = <<>> /\ nofollow THEN Res("ok", next, TRUE)
                 ELSE IF fuel = 0 THEN Res("ELOOP", next, FALSE)
                 ELSE Walk(f, IF f[next].rel THEN cur ELSE Root,
                           f[next].target \o more, fuel - 1, nofollow)
             ELSE IF f[next].kind = "dir" THEN Walk(f, next, more, fuel, nofollow)
             ELSE IF more = <<>> THEN Res("ok", next, TRUE)
             ELSE Res("ENOTDIR", next, FALSE)

\* a system call that resolves p, following a link in the last position
Resolve(f, p) ==
    IF Len(p) > PathMax THEN Res("ENAMETOOLONG", p, FALSE)
    ELSE Walk(f, Root, p, MaxSymlinks, FALSE)

\* a system call that resolves p but not a link in the last position
Locate(f, p) ==
    IF Len(p) > PathMax THEN Res("ENAMETOOLONG", p, FALSE)
    ELSE Walk(f, Root, p, MaxSymlinks, TRUE)

\* Path::is_file, Path::is_dir, Path::is_symlink: an error reads as false
IsFile(f, p) == LET r == Resolve(f, p) IN r.st = "ok" /\ f[r.p].kind = "file"
IsDir(f, p) == LET r == Resolve(f, p) IN r.st = "ok" /\ f[r.p].kind = "dir"
IsSymlink(f, p) == LET r == Locate(f, p) IN r.st = "ok" /\ f[r.p].kind = "link"

\* a faulty existence check: an error of stat counts as "exists"
TryExistsErrIsTrue(f, p) == Resolve(f, p).st \notin {"ENOENT", "ENOTDIR"}

\* a faulty existence check: the link itself is looked at, not its target
TryExistsNoFollow(f, p) == Locate(f, p).st = "ok"

\* Path::try_exists().is_ok_and(|x| x): only a successful stat counts
TryExists(f, p) == Resolve(f, p).st = "ok"

\* the operating system's number for an error
Errno(st) ==
    CASE st = "ENOENT" -> 2
      [] st = "EEXIST" -> 17
      [] st = "ENOTDIR" -> 20
      [] st = "EISDIR" -> 21
      [] st = "EINVAL" -> 22
      [] st = "ENAMETOOLONG" -> 36
      [] st = "ELOOP" -> 40
      [] OTHER -> 0

(***************************************************************************)
(* The filesystem calls the program makes.  Each answers a record with     *)
(* the status and, where the call changes the filesystem, the new          *)
(* filesystem and the place that changed.                                  *)
(***************************************************************************)
Without(f, p) == [q \in (DOMAIN f) \ {p} |-> f[q]]
With(f, p, e) == [q \in (DOMAIN f) \cup {p} |-> IF q = p THEN e ELSE f[q]]

Out(st, f, at) == [st |-> st, fs |-> f, at |-> at]

\* a faulty removal: the link is followed and what it points at is removed
RemoveFileFollow(f, p) ==
    LET r == Resolve(f, p)
    IN  IF r.st # "ok" THEN Out(r.st, f, r.p)
        ELSE IF f[r.p].kind = "dir" THEN Out("EISDIR", f, r.p)
        ELSE Out("ok", Without(f, r.p), r.p)

\* fs::remove_file: unlink, which never follows the last component
RemoveFile(f, p) ==
    LET r == Locate(f, p)
    IN  IF r.st # "ok" THEN Out(r.st, f, r.p)
        ELSE IF f[r.p].kind = "dir" THEN Out("EISDIR", f, r.p)
        ELSE Out("ok", Without(f, r.p), r.p)

\* a faulty maybe_remove_file: nothing is removed
never_remove_file(f, p) == Out("ok", f, p)

\* maybe_remove_file: a missing entry counts as removed
maybe_remove_file(f, p) ==
    LET r == RemoveFile(f, p)
    IN  IF r.st = "ENOENT" THEN Out("ok", f, r.at) ELSE r

\* fs::create_dir: mkdir, which fails on any existing entry
CreateDir(f, p) ==
    LET r == Locate(f, p)
    IN  IF r.st = "ok" THEN Out("EEXIST", f, r.p)
        ELSE IF r.st = "ENOENT" /\ r.final THEN Out("ok", With(f, r.p, DirEntry), r.p)
        ELSE Out(r.st, f, r.p)

\* a faulty copy: the destination is created, the bytes are not written
FsCopyEmpty(f, from, to) ==
    LET s == Resolve(f, from)
        d == Resolve(f, to)
    IN  IF s.st # "ok" THEN Out(s.st, f, s.p)
        ELSE IF d.st = "ok" \/ (d.st = "ENOENT" /\ d.final)
        THEN Out("ok", With(f, d.p, FileEntry(<<>>)), d.p)
        ELSE Out(d.st, f, d.p)

\* fs::copy: the source must be a regular file; the destination is opened
\* for writing, created when missing and truncated when present
FsCopy(f, from, to) ==
    LET s == Resolve(f, from)
        d == Resolve(f, to)
    IN  IF s.st # "ok" THEN Out(s.st, f, s.p)
        ELSE IF f[s.p].kind # "file" THEN Out("EINVAL", f, s.p)
        ELSE IF d.st = "ok" THEN
                 IF f[d.p].kind = "dir" THEN Out("EISDIR", f, d.p)
                 ELSE IF d.p = s.p THEN Out("ok", With(f, d.p, FileEntry(<<>>)), d.p)
                 ELSE Out("ok", With(f, d.p, FileEntry(f[s.p].data)), d.p)
        ELSE IF d.st = "ENOENT" /\ d.final
                 THEN Out("ok", With(f, d.p, FileEntry(f[s.p].data)), d.p)
        ELSE Out(d.st, f, d.p)

\* fs::read_dir: the names of the directory, read when it is opened
ReadDir(f, p) ==
    LET r == Resolve(f, p)
    IN  IF r.st # "ok" THEN [st |-> r.st, names |-> {}]
        ELSE IF f[r.p].kind # "dir" THEN [st |-> "ENOTDIR", names |-> {}]
        ELSE [st |-> "ok", names |-> Members(f, r.p)]

\* Path::canonicalize: every component must exist
Canonicalize(f, p) == Resolve(f, p)

(***************************************************************************)
(* resolve_symlink.  The answer is "some" with the canonical target,       *)
(* "none" for an entry that is no link, "loop" for the recovered           *)
(* filesystem loop (a SKIP SELF REFERENCE line is due, and the caller      *)
(* gets Ok(None)), or "err" with the error.                                *)
(***************************************************************************)
Answer(st, dest, e) == [st |-> st, dest |-> dest, errno |-> e]

\* a faulty classification: metadata, which follows links, in place of
\* symlink_metadata, so that no entry is seen to be a link
inner_resolve_metadata(f, path) ==
    LET m == Resolve(f, path)
    IN  IF m.st # "ok" THEN Answer("err", <<>>, m.st) ELSE Answer("none", <<>>, "")

inner_resolve_symlink(f, path) ==
    LET m == Locate(f, path)
    IN  IF m.st # "ok" THEN Answer("err", <<>>, m.st)
        ELSE IF f[m.p].kind # "link" THEN Answer("none", <<>>, "")
        ELSE LET entry_dest == f[m.p]
                 c == IF entry_dest.rel
                      THEN IF Len(path) > 0
                           THEN Canonicalize(f, Parent(path) \o entry_dest.target)
                           ELSE Canonicalize(f, Cwd \o entry_dest.target)
                      ELSE Canonicalize(f, entry_dest.target)
             IN  IF c.st = "ok" THEN Answer("some", c.p, "")
                 ELSE Answer("err", <<>>, c.st)

\* a faulty recovery: every error of the classification is taken for the
\* filesystem loop
resolve_symlink_lenient(f, path) ==
    LET r == inner_resolve_symlink(f, path)
    IN  IF r.st = "err" THEN Answer("loop", <<>>, "") ELSE r

resolve_symlink(f, path) ==
    LET r == inner_resolve_symlink(f, path)
    IN  IF r.st = "err" /\ Errno(r.errno) = SelfRefErrno
        THEN Answer("loop", <<>>, "")
        ELSE r

(***************************************************************************)
(* The log: the lines written to the sink and the changes made to the      *)
(* filesystem, in the order in which they happen.  path is the path as     *)
(* the program holds it, at the real place a change touched, inp the       *)
(* number of the input being processed, depth the number of relink calls   *)
(* that are active and via the loop the innermost call was made from       *)
(* ("exec", "descend" or "populate").                                      *)
(***************************************************************************)
LineKinds == {"COPY", "POPULATE", "SKIP SELF REFERENCE", "SKIP RECURSIVE", "SKIP INPUT"}
ChangeKinds == {"remove", "create_dir", "copy"}

Event(kind, dest, path, at) ==
    [kind |-> kind, dest |-> dest, path |-> path, at |-> at,
     inp |-> idx, run |-> run, depth |-> Len(stack),
     via |-> IF Len(stack) <= 1 THEN "exec" ELSE stack[Len(stack) - 1].pc]

\* what the sink holds
Sink == SelectSeq(log, LAMBDA e : e.kind \in LineKinds)

(***************************************************************************)
(* A call of relink: path is the buffer the call was handed, entry what    *)
(* the buffer held when the call began (history), has/dest the Option      *)
(* symlink_dest, pc the next step of the call and todo the names the open  *)
(* directory iterator has still to give.                                   *)
(***************************************************************************)
Frame(path, has, dest) ==
    [path |-> path, entry |-> path, has |-> has, dest |-> dest,
     pc |-> "enter", todo |-> {}]

Top == stack[Len(stack)]
Running == result = "run" /\ stack # <<>>
At(pc) == Running /\ Top.pc = pc
SetTop(f) == [stack EXCEPT ![Len(stack)] = f]

\* a faulty return: path.pop() is forgotten
ReturnNoPop(stk) == SubSeq(stk, 1, Len(stk) - 1)

\* relink returns Ok(()): the frame goes, and a caller that lent its path
\* buffer to the call gets it back and pops the pushed name (path.pop())
Return(stk) ==
    LET n == Len(stk)
        rest == SubSeq(stk, 1, n - 1)
    IN  IF n > 1 /\ rest[n - 1].pc = "populate"
        THEN [rest EXCEPT ![n - 1].path = Parent(stk[n].path)]
        ELSE rest

Unchanged == UNCHANGED <<fs0, fs1, mark, inputs, run>>
SameBuild == UNCHANGED build
SameInput == UNCHANGED <<idx, fsIn>>

\* a faulty ?: the error is dropped and the call returns as if it were Ok
FailIgnored(e) ==
    /\ result' = result
    /\ errno' = errno
    /\ stack' = Return(stack)

\* an error leaves through every ? up to the caller of exec
Fail(e) ==
    /\ result' = "err"
    /\ errno' = e
    /\ stack' = <<>>

\* a failed debug assertion ends the process
Panic ==
    /\ result' = "panic"
    /\ errno' = ""
    /\ stack' = <<>>

(***************************************************************************)
(* exec                                                                    *)
(***************************************************************************)
\* path::absolute: an input of the model is absolute already
Absolute(p) == p

\* exec, line 114 false: the input does not exist
ExecSkipInput ==
    /\ result = "run" /\ stack = <<>> /\ idx < Len(inputs)
    /\ LET path == inputs[idx + 1]
       IN  /\ ~TryExists(fs, path)
           /\ idx' = idx + 1
           /\ fsIn' = fs
           /\ log' = Append(log, [Event("SKIP INPUT", path, path, <<>>) EXCEPT !.inp = idx + 1])
    /\ UNCHANGED <<fs, stack, result, errno>>
    /\ Unchanged
    /\ SameBuild

\* exec, lines 115-116: classify the input and call relink
ExecRelink ==
    /\ result = "run" /\ stack = <<>> /\ idx < Len(inputs)
    /\ LET path == inputs[idx + 1]
           r == resolve_symlink(fs, path)
       IN  /\ TryExists(fs, path)
           /\ idx' = idx + 1
           /\ fsIn' = fs
           /\ IF r.st = "err"
              THEN Fail(r.errno) /\ log' = log
              ELSE /\ stack' = <<Frame(Absolute(path), r.st = "some", r.dest)>>
                   /\ log' = IF r.st = "loop"
                             THEN Append(log, [Event("SKIP SELF REFERENCE", path, path, <<>>)
                                                  EXCEPT !.inp = idx + 1])
                             ELSE log
                   /\ UNCHANGED <<result, errno>>
    /\ UNCHANGED fs
    /\ Unchanged
    /\ SameBuild

\* exec, line 122: every input is done
ExecDone ==
    /\ result = "run" /\ stack = <<>> /\ idx = Len(inputs)
    /\ result' = "ok"
    /\ UNCHANGED <<fs, idx, fsIn, stack, log, errno>>
    /\ Unchanged
    /\ SameBuild

\* the caller runs exec again on the same inputs
Rerun ==
    /\ result = "ok" /\ run = 1
    /\ run' = 2
    /\ result' = "run"
    /\ idx' = 0
    /\ fs1' = fs
    /\ mark' = Len(log)
    /\ UNCHANGED <<fs, fs0, fsIn, inputs, stack, log, errno, build>>

(***************************************************************************)
(* relink                                                                  *)
(***************************************************************************)
Goto(pc) == SetTop([Top EXCEPT !.pc = pc])

\* debug_assert!(ok): a failed assertion ends a debug build and goes
\* unnoticed in a release build; which build runs shows at the first failure
Builds(ok) == IF ok \/ build # "unknown" THEN {build} ELSE {"debug", "release"}

\* relink, lines 61-75: symlink_dest is Some(dest)
RelinkLink ==
    /\ At("enter") /\ Top.has
    /\ LET path == Top.path
           dest == Top.dest
       IN  IF dest = path
           THEN /\ log' = Append(log, Event("SKIP SELF REFERENCE", dest, dest, <<>>))
                /\ stack' = Return(stack)
                /\ UNCHANGED <<result, errno, build>>
           ELSE IF IsFile(fs, dest)
           THEN /\ log' = Append(log, Event("COPY", dest, path, <<>>))
                /\ stack' = Goto("copy_remove")
                /\ UNCHANGED <<result, errno, build>>
           ELSE \E b \in Builds(IsDir(fs, dest)) :
                /\ build' = b
                /\ IF b = "debug" /\ ~IsDir(fs, dest)
                   THEN Panic /\ log' = log
                   ELSE IF StartsWith(path, dest)
                   THEN /\ log' = Append(log, Event("SKIP RECURSIVE", path, path, <<>>))
                        /\ stack' = Return(stack)
                        /\ UNCHANGED <<result, errno>>
                   ELSE /\ log' = Append(log, Event("POPULATE", dest, path, <<>>))
                        /\ stack' = Goto("populate_remove")
                        /\ UNCHANGED <<result, errno>>
    /\ UNCHANGED fs
    /\ SameInput
    /\ Unchanged

\* a step that changes the filesystem: on success the change is logged and
\* the call goes on as next says, on an error exec returns it
Change(kind, r, next) ==
    IF r.st = "ok"
    THEN /\ fs' = r.fs
         /\ log' = IF r.fs = fs THEN log
                   ELSE Append(log, Event(kind, Top.dest, Top.path, r.at))
         /\ stack' = next
         /\ UNCHANGED <<result, errno>>
    ELSE /\ Fail(r.st)
         /\ UNCHANGED <<fs, log>>

\* relink, line 66
CopyRemove ==
    /\ At("copy_remove")
    /\ Change("remove", maybe_remove_file(fs, Top.path), Goto("copy_copy"))
    /\ SameInput
    /\ Unchanged
    /\ SameBuild

\* relink, line 67
CopyCopy ==
    /\ At("copy_copy")
    /\ Change("copy", FsCopy(fs, Top.dest, Top.path), Return(stack))
    /\ SameInput
    /\ Unchanged
    /\ SameBuild

\* relink, line 75
PopulateRemove ==
    /\ At("populate_remove")
    /\ Change("remove", maybe_remove_file(fs, Top.path), Goto("populate_create"))
    /\ SameInput
    /\ Unchanged
    /\ SameBuild

\* relink, line 76
PopulateCreate ==
    /\ At("populate_create")
    /\ Change("create_dir", CreateDir(fs, Top.path), Goto("populate_read"))
    /\ SameInput
    /\ Unchanged
    /\ SameBuild

\* a faulty line 78: read_dir(&path), the new directory, in place of dest
PopulateReadPath ==
    /\ At("populate_read")
    /\ LET r == ReadDir(fs, Top.path)
       IN  IF r.st = "ok"
           THEN /\ stack' = SetTop([Top EXCEPT !.pc = "populate", !.todo = r.names])
                /\ UNCHANGED <<result, errno>>
           ELSE Fail(r.st)
    /\ UNCHANGED <<fs, log>>
    /\ SameInput
    /\ Unchanged
    /\ SameBuild

\* relink, line 78: read_dir(dest)
PopulateRead ==
    /\ At("populate_read")
    /\ LET r == ReadDir(fs, Top.dest)
       IN  IF r.st = "ok"
           THEN /\ stack' = SetTop([Top EXCEPT !.pc = "populate", !.todo = r.names])
                /\ UNCHANGED <<result, errno>>
           ELSE Fail(r.st)
    /\ UNCHANGED <<fs, log>>
    /\ SameInput
    /\ Unchanged
    /\ SameBuild

\* a faulty line 83: the member is handed over as its own target
PopulateNextSelf ==
    /\ At("populate") /\ Top.todo # {}
    /\ \E name \in Top.todo :
          LET pushed == Append(Top.path, name)
          IN  stack' = Append(SetTop([Top EXCEPT !.todo = Top.todo \ {name},
                                                 !.path = pushed]),
                              Frame(pushed, TRUE, pushed))
    /\ UNCHANGED <<fs, log, result, errno>>
    /\ SameInput
    /\ Unchanged
    /\ SameBuild

\* relink, lines 79-83: the next member of dest, in the order the
\* filesystem gives; path.push and the recursive call
PopulateNext ==
    /\ At("populate") /\ Top.todo # {}
    /\ \E name \in Top.todo :
          LET sub_dest == Append(Top.dest, name)
              pushed == Append(Top.path, name)
          IN  stack' = Append(SetTop([Top EXCEPT !.todo = Top.todo \ {name},
                                                 !.path = pushed]),
                              Frame(pushed, TRUE, sub_dest))
    /\ UNCHANGED <<fs, log, result, errno>>
    /\ SameInput
    /\ Unchanged
    /\ SameBuild

\* relink, lines 87 and 105: dest has no further member
PopulateDone ==
    /\ At("populate") /\ Top.todo = {}
    /\ stack' = Return(stack)
    /\ UNCHANGED <<fs, log, result, errno>>
    /\ SameInput
    /\ Unchanged
    /\ SameBuild

\* relink, lines 90-91: no link, and path is a directory
RelinkDir ==
    /\ At("enter") /\ ~Top.has /\ IsDir(fs, Top.path)
    /\ LET r == ReadDir(fs, Top.path)
       IN  IF r.st = "ok"
           THEN /\ stack' = SetTop([Top EXCEPT !.pc = "descend", !.todo = r.names])
                /\ UNCHANGED <<result, errno>>
           ELSE Fail(r.st)
    /\ UNCHANGED <<fs, log>>
    /\ SameInput
    /\ Unchanged
    /\ SameBuild

\* relink, lines 92-96: classify the next entry and call relink on it
DescendNext ==
    /\ At("descend") /\ Top.todo # {}
    /\ \E name \in Top.todo :
          LET entry_path == Append(Top.path, name)
              entry_dest == resolve_symlink(fs, entry_path)
          IN  IF entry_dest.st = "err"
              THEN Fail(entry_dest.errno) /\ log' = log
              ELSE /\ stack' = Append(SetTop([Top EXCEPT !.todo = Top.todo \ {name}]),
                                      Frame(entry_path, entry_dest.st = "some",
                                            entry_dest.dest))
                   /\ log' = IF entry_dest.st = "loop"
                             THEN Append(log, Event("SKIP SELF REFERENCE",
                                                    entry_path, entry_path, <<>>))
                             ELSE log
                   /\ UNCHANGED <<result, errno>>
    /\ UNCHANGED fs
    /\ SameInput
    /\ Unchanged
    /\ SameBuild

\* relink, lines 97 and 105: the directory has no further entry
DescendDone ==
    /\ At("descend") /\ Top.todo = {}
    /\ stack' = Return(stack)
    /\ UNCHANGED <<fs, log, result, errno>>
    /\ SameInput
    /\ Unchanged
    /\ SameBuild

\* the debug assertion of lines 99-102
OtherAssertion(f, path) ==
    \/ IsFile(f, path)
    \/ /\ IsSymlink(f, path)
       /\ LET p == f[Locate(f, path).p]
          IN  Canonicalize(f, IF p.rel THEN Cwd \o p.target ELSE p.target).st # "ok"

\* relink, lines 98-105: no link and no directory
RelinkOther ==
    /\ At("enter") /\ ~Top.has /\ ~IsDir(fs, Top.path)
    /\ \E b \in Builds(OtherAssertion(fs, Top.path)) :
          /\ build' = b
          /\ IF b = "debug" /\ ~OtherAssertion(fs, Top.path)
             THEN Panic
             ELSE stack' = Return(stack) /\ UNCHANGED <<result, errno>>
    /\ UNCHANGED <<fs, log>>
    /\ SameInput
    /\ Unchanged

(***************************************************************************)
(* The filesystems and input lists a run starts from.  Every slot may be   *)
(* missing, a regular file, a directory or a link; an entry below the top  *)
(* level needs a directory above it.  A regular file starts with a content *)
(* no other file has (its own path).                                       *)
(***************************************************************************)
Slots == << <<"a">>, <<"a", "a">>, <<"a", "b">>, <<"a", "a", "a">>, <<"b">> >>
SlotIds == 1..Len(Slots)
Kinds == {"none", "file", "dir", "link"}
\* what each slot may start as
SlotKinds == << {"dir"}, Kinds, Kinds, {"none", "file"}, {"none", "dir", "link"} >>
LinkTargets ==
    {LinkEntry(FALSE, t) : t \in {<<"a">>, <<"b">>, <<"a", "a">>, <<"a", "b">>}}
        \cup {LinkEntry(TRUE, <<n>>) : n \in Names}
LinkRanks == {1, 2}
InputPaths == {<<>>, <<"b">>, <<"b", "b">>}

SlotOf(p) == CHOOSE i \in SlotIds : Slots[i] = p

WellFormed(k) ==
    /\ \A i \in SlotIds :
          (k[i] # "none" /\ Len(Slots[i]) > 1) => k[SlotOf(Parent(Slots[i]))] = "dir"
    /\ Cardinality({i \in SlotIds : k[i] = "link"}) <= Cardinality(LinkRanks)
    /\ \A i \in SlotIds : k[i] \in SlotKinds[i]

\* the number of links in slots up to i
Rank(k, i) == Cardinality({j \in 1..i : k[j] = "link"})

MakeFs(k, tg) ==
    [p \in {Root} \cup {Slots[i] : i \in {j \in SlotIds : k[j] # "none"}} |->
        IF p = Root THEN DirEntry
        ELSE LET i == SlotOf(p)
             IN  IF k[i] = "file" THEN FileEntry(p)
                 ELSE IF k[i] = "dir" THEN DirEntry
                 ELSE tg[Rank(k, i)]]

Init ==
    /\ \E k \in [SlotIds -> Kinds] :
          /\ WellFormed(k)
          /\ \E tg \in [LinkRanks -> LinkTargets] :
                /\ \A r \in LinkRanks :
                      r > Rank(k, Len(Slots)) => tg[r] = LinkEntry(FALSE, <<"a">>)
                /\ fs = MakeFs(k, tg)
    /\ fs0 = fs
    /\ fs1 = fs
    /\ fsIn = fs
    /\ mark = 0
    /\ \E n \in 1..MaxInputs : inputs \in [1..n -> InputPaths]
    /\ idx = 0
    /\ stack = <<>>
    /\ log = <<>>
    /\ result = "run"
    /\ errno = ""
    /\ run = 1
    /\ build = "unknown"

Next ==
    \/ ExecSkipInput
    \/ ExecRelink
    \/ ExecDone
    \/ Rerun
    \/ RelinkLink
    \/ CopyRemove
    \/ CopyCopy
    \/ PopulateRemove
    \/ PopulateCreate
    \/ PopulateRead
    \/ PopulateNext
    \/ PopulateDone
    \/ RelinkDir
    \/ DescendNext
    \/ DescendDone
    \/ RelinkOther

Spec == Init /\ [][Next]_vars

(***************************************************************************)
(* Vocabulary of the properties.                                           *)
(***************************************************************************)
\* the input exec took last
Input == inputs[idx]
\* relink has returned Ok for the input exec took last, or the input was
\* skipped
InputDone == idx >= 1 /\ stack = <<>> /\ result \in {"run", "ok"}
\* what was logged for the input exec took last, in this run
EventsOfInput == SelectSeq(log, LAMBDA e : e.inp = idx /\ e.run = run)
LinesOfInput == SelectSeq(EventsOfInput, LAMBDA e : e.kind \in LineKinds)
\* a line as it reads in the sink
Text(e) == [kind |-> e.kind, dest |-> e.dest, path |-> e.path]
Texts(es) == [i \in 1..Len(es) |-> Text(es[i])]
Range(s) == {s[i] : i \in 1..Len(s)}

\* the real place of the entry p names (a link in the last position is not
\* followed) and the canonical path of p
PlaceOf(f, p) == Locate(f, p).p
CanonOf(f, p) == Resolve(f, p).p

\* the entries at or beneath the real place d
Tree(f, d) == {q \in DOMAIN f : StartsWith(q, d)}

(***************************************************************************)
(* C1: an existing input that is a symbolic link whose canonical target is *)
(* a regular file (directly or through a chain of links) is processed      *)
(* without an error; once relink has returned, the sink holds for it       *)
(* exactly the line COPY <target> => <link>, the link entry was removed,   *)
(* the link's path holds a regular file, no link, with the bytes of the    *)
(* target, and the target is as it was.                                    *)
(***************************************************************************)
FileLinkInput ==
    /\ idx >= 1
    /\ TryExists(fsIn, Input)
    /\ IsSymlink(fsIn, Input)
    /\ IsFile(fsIn, Input)

C1_FileLinkCopied ==
    FileLinkInput =>
        LET target == CanonOf(fsIn, Input)
            link == PlaceOf(fsIn, Input)
        IN  /\ result \in {"run", "ok"}
            /\ stack = <<>> =>
                  /\ Texts(LinesOfInput) = <<[kind |-> "COPY", dest |-> target, path |-> Input]>>
                  /\ \E e \in Range(EventsOfInput) : e.kind = "remove" /\ e.at = link
                  /\ IsFile(fs, Input) /\ ~IsSymlink(fs, Input)
                  /\ fs[link] = FileEntry(fsIn[target].data)
                  /\ fs[target] = fsIn[target]

\* the chain case has happened: the input was a link to a link to a file
C1_Witness ==
    /\ FileLinkInput /\ stack = <<>> /\ result = "run"
    /\ LET l == fsIn[PlaceOf(fsIn, Input)]
       IN  IsSymlink(fsIn, IF l.rel THEN Parent(PlaceOf(fsIn, Input)) \o l.target
                           ELSE l.target)

(***************************************************************************)
(* C2: an existing input that is a symbolic link whose canonical target is *)
(* a directory that is not an ancestor of the link: once relink has        *)
(* returned Ok, the link's path is a real directory that mirrors the       *)
(* target at every depth (the same member names, every regular file a      *)
(* regular file with the same bytes, every directory a real directory),    *)
(* and the target tree is as it was.                                       *)
(***************************************************************************)
RECURSIVE Mirror(_, _, _, _, _)
\* the real entry at pb of fb mirrors what pa names in fa, down to depth n
Mirror(fa, pa, fb, pb, n) ==
    IF IsFile(fa, pa)
    THEN pb \in DOMAIN fb /\ fb[pb] = FileEntry(fa[CanonOf(fa, pa)].data)
    ELSE IF IsDir(fa, pa)
    THEN /\ pb \in DOMAIN fb /\ fb[pb] = DirEntry
         /\ Members(fb, pb) = Members(fa, CanonOf(fa, pa))
         /\ n > 0 => \A m \in Members(fb, pb) :
                        Mirror(fa, Append(pa, m), fb, Append(pb, m), n - 1)
    ELSE FALSE

DirLinkInput ==
    /\ idx >= 1
    /\ TryExists(fsIn, Input)
    /\ IsSymlink(fsIn, Input)
    /\ IsDir(fsIn, Input)
    /\ ~StartsWith(PlaceOf(fsIn, Input), CanonOf(fsIn, Input))

C2_DirLinkMirrored ==
    (DirLinkInput /\ InputDone) =>
        LET target == CanonOf(fsIn, Input)
            link == PlaceOf(fsIn, Input)
        IN  /\ Mirror(fsIn, target, fs, link, PathMax)
            /\ Tree(fs, target) = Tree(fsIn, target)
            /\ \A q \in Tree(fsIn, target) : fs[q] = fsIn[q]

\* a target with a file in a subdirectory has been mirrored
C2_Witness ==
    /\ DirLinkInput /\ InputDone
    /\ \E q \in Tree(fsIn, CanonOf(fsIn, Input)) :
          fsIn[q].kind = "file" /\ Len(q) = Len(CanonOf(fsIn, Input)) + 2

AncestorLinkCall ==
    /\ At("enter") /\ Top.has
    /\ IsSymlink(fs, Top.path)
    /\ IsDir(fs, Top.dest)
    /\ CanonOf(fs, Top.path) = Top.dest
    /\ StartsWith(PlaceOf(fs, Top.path), Top.dest)

C4_AncestorLinkSkipped ==
    [][AncestorLinkCall =>
          /\ log' = Append(log, Event("SKIP RECURSIVE", Top.path, Top.path, <<>>))
          /\ stack' = Return(stack)
          /\ fs' = fs
          /\ result' = "run"]_vars

(***************************************************************************)
(* C5, as the specification states it: a top-level input that is a link    *)
(* whose target is the link itself gets exactly the line SKIP SELF         *)
(* REFERENCE <path> (and no SKIP INPUT line), nothing changes in the       *)
(* filesystem and the path still is a symbolic link.                       *)
(***************************************************************************)
\* what the link at p holds, with a relative target joined to the parent
TargetOf(f, p) ==
    LET l == f[PlaceOf(f, p)]
    IN  IF l.rel THEN Parent(p) \o l.target ELSE l.target

SelfLinkInput ==
    /\ idx >= 1
    /\ IsSymlink(fsIn, Input)
    /\ TargetOf(fsIn, Input) = Input

OneLine(kind, p) == <<[kind |-> kind, dest |-> p, path |-> p]>>

C5_SelfLinkInputSelfReference ==
    (SelfLinkInput /\ stack = <<>>) =>
        /\ result \in {"run", "ok"}
        /\ Texts(LinesOfInput) = OneLine("SKIP SELF REFERENCE", Input)
        /\ fs = fsIn
        /\ IsSymlink(fs, Input)

(***************************************************************************)
(* C5, amended: a top-level input that is a link whose target is the link  *)
(* itself fails the existence check of exec and gets exactly the line      *)
(* SKIP INPUT <path> (and no SKIP SELF REFERENCE line); relink is not      *)
(* called for it, nothing changes in the filesystem and the path still is  *)
(* a symbolic link.                                                        *)
(***************************************************************************)
C5_SelfLinkInputSkipped ==
    SelfLinkInput =>
        /\ stack = <<>>
        /\ result \in {"run", "ok"}
        /\ Texts(LinesOfInput) = OneLine("SKIP INPUT", Input)
        /\ fs = fsIn
        /\ IsSymlink(fs, Input)

\* a self-referential link with a relative target has been an input
C5_Witness ==
    /\ SelfLinkInput /\ result = "run"
    /\ fsIn[PlaceOf(fsIn, Input)].rel

(***************************************************************************)
(* C6: when relink descends a real directory and meets a child link whose  *)
(* resolution loops, resolve_symlink has written exactly one line, SKIP    *)
(* SELF REFERENCE <child>, and answered Ok(None); the call of relink for   *)
(* the child then returns Ok without a line and without touching the       *)
(* filesystem, so the child stays a symbolic link and the walk goes on     *)
(* with the remaining siblings.                                            *)
(***************************************************************************)
LoopChildCall ==
    /\ At("enter") /\ ~Top.has
    /\ Len(stack) > 1 /\ stack[Len(stack) - 1].pc = "descend"
    /\ IsSymlink(fs, Top.path)
    /\ Resolve(fs, Top.path).st = "ELOOP"

C6_LoopChildSkipped ==
    [][LoopChildCall =>
          /\ Texts(SelectSeq(EventsOfInput, LAMBDA e : e.path = Top.path))
                = OneLine("SKIP SELF REFERENCE", Top.path)
          /\ log' = log
          /\ fs' = fs
          /\ result' = "run"
          /\ stack' = Return(stack)]_vars

(***************************************************************************)
(* C7: once relink has returned Ok for an existing input, every symbolic   *)
(* link that is left at or beneath the input's path is one for which a     *)
(* SKIP SELF REFERENCE or SKIP RECURSIVE line was written, and no          *)
(* directory that a POPULATE produced holds a link at any depth.           *)
(***************************************************************************)
SkipKinds == {"SKIP SELF REFERENCE", "SKIP RECURSIVE"}

ExistingInputDone == InputDone /\ TryExists(fsIn, Input)

C7_NoLinkRemains ==
    ExistingInputDone =>
        /\ \A q \in Tree(fs, PlaceOf(fs, Input)) :
              fs[q].kind = "link" =>
                  \E e \in Range(LinesOfInput) :
                      e.kind \in SkipKinds /\ PlaceOf(fs, e.path) = q
        /\ \A e \in Range(LinesOfInput) :
              e.kind = "POPULATE" =>
                  \A q \in Tree(fs, PlaceOf(fs, e.path)) : fs[q].kind # "link"

\* a directory was populated with a file of the target, and a skipped link
\* is left beneath the input
C7_Witness ==
    /\ ExistingInputDone
    /\ \E e, c \in Range(LinesOfInput) :
          /\ e.kind = "POPULATE" /\ c.kind = "COPY"
          /\ StartsWith(c.path, e.path)
    /\ \E q \in Tree(fs, PlaceOf(fs, Input)) : fs[q].kind = "link"

SameVisit(e, d) == e.inp = d.inp /\ e.run = d.run
Copies == {"COPY", "POPULATE"}

\* the places in l of l[k] and of what was logged before it
OrderedAt(l, k) ==
    LET e == l[k]
        before == {i \in 1..(k - 1) : SameVisit(l[i], e)}
    IN  /\ \A i \in 1..(k - 1) : l[i].run = e.run => l[i].inp <= e.inp
        /\ (e.kind \in Copies /\ e.via = "populate") =>
              \E i \in before : l[i].kind = "POPULATE" /\ l[i].path = Parent(e.path)
        /\ e.kind = "POPULATE" =>
              \A i \in before :
                  ~(l[i].kind \in Copies /\ StartsWith(l[i].path, e.path)
                        /\ l[i].path # e.path)
        /\ \A n \in 1..Len(e.path) :
              (\E i \in before : StartsWith(l[i].path, SubSeq(e.path, 1, n)))
                  => (k - 1) \in before
                        /\ StartsWith(l[k - 1].path, SubSeq(e.path, 1, n))

C9_OutputOrdered == [][Len(log') > Len(log) => OrderedAt(log', Len(log'))]_vars

\* a populated directory had two members, the first with a member of its
\* own, and a second input wrote a line after the first
C9_Witness ==
    /\ \E i, j, k \in 1..Len(log) :
          /\ i < j /\ j < k
          /\ log[i].kind = "POPULATE" /\ log[j].kind = "COPY" /\ log[k].kind \in Copies
          /\ log[i].via = "populate" /\ log[j].via = "populate" /\ log[k].via = "populate"
          /\ Parent(log[j].path) = log[i].path
          /\ Parent(log[k].path) = Parent(log[i].path)
    /\ \E i, j \in 1..Len(log) :
          /\ log[i].run = 1 /\ log[j].run = 1
          /\ log[i].inp = 1 /\ log[j].inp = 2

(***************************************************************************)
(* C10: a top-level input that does not exist (a link to a missing target  *)
(* included) gets exactly the line SKIP INPUT <path>; nothing is changed   *)
(* for it, it is no error, and exec goes on to the next input.             *)
(***************************************************************************)
\* following links from the input does not arrive at an existing entry
MissingInput == idx >= 1 /\ Resolve(fsIn, Input).st # "ok"

C10_MissingInputSkipped ==
    MissingInput =>
        /\ stack = <<>>
        /\ IF idx < Len(inputs) THEN result = "run" ELSE result \in {"run", "ok"}
        /\ Texts(EventsOfInput) = OneLine("SKIP INPUT", Input)
        /\ fs = fsIn

\* a link to a missing target was skipped and another input is still to come
C10_Witness ==
    /\ MissingInput /\ result = "run" /\ idx < Len(inputs)
    /\ IsSymlink(fsIn, Input)
    /\ Resolve(fsIn, Input).st = "ENOENT"

(***************************************************************************)
(* C11: when a filesystem operation fails (removing an entry that is       *)
(* already absent and the recovered loop of resolve_symlink are no         *)
(* failures), exec returns that error at that step; the failing step and   *)
(* everything after it writes no line and changes nothing in the           *)
(* filesystem, and no later sibling or input is taken up.                  *)
(***************************************************************************)
\* exec returns the error e at this step
Aborted(e) ==
    /\ result' = "err" /\ errno' = e /\ stack' = <<>>
    /\ fs' = fs /\ log' = log /\ idx' = idx

\* the error of classifying the entry p, "ok" when there is none or when it
\* is the filesystem loop
ClassifyStatus(f, p) ==
    LET r == inner_resolve_symlink(f, p)
    IN  IF r.st = "err" /\ r.errno # "ELOOP" THEN r.errno ELSE "ok"

RemoveStatus(f, p) ==
    LET st == RemoveFile(f, p).st IN IF st = "ENOENT" THEN "ok" ELSE st

\* the answer of the filesystem operation the next step makes, for the
\* steps whose operation the state determines
OpStatus ==
    IF At("copy_remove") \/ At("populate_remove") THEN RemoveStatus(fs, Top.path)
    ELSE IF At("copy_copy") THEN FsCopy(fs, Top.dest, Top.path).st
    ELSE IF At("populate_create") THEN CreateDir(fs, Top.path).st
    ELSE IF At("populate_read") THEN ReadDir(fs, Top.dest).st
    ELSE IF At("enter") /\ ~Top.has /\ IsDir(fs, Top.path) THEN ReadDir(fs, Top.path).st
    ELSE IF result = "run" /\ stack = <<>> /\ idx < Len(inputs)
            /\ Resolve(fs, inputs[idx + 1]).st = "ok"
         THEN ClassifyStatus(fs, inputs[idx + 1])
    ELSE "ok"

\* a step of the descent takes one of the entries still to come: it aborts
\* when classifying the entry fails and calls relink on the entry when not
DescentStep ==
    \E name \in Top.todo :
        LET st == ClassifyStatus(fs, Append(Top.path, name))
        IN  IF st # "ok" THEN Aborted(st)
            ELSE /\ result' = "run"
                 /\ Len(stack') = Len(stack) + 1
                 /\ stack'[Len(stack')].entry = Append(Top.path, name)

C11_AbortOnError ==
    [][/\ OpStatus # "ok" => Aborted(OpStatus)
       /\ (At("descend") /\ Top.todo # {}) => DescentStep
       /\ result' = "err" => (fs' = fs /\ log' = log /\ idx' = idx)
       /\ result = "err" => (result' = "err" /\ fs' = fs /\ log' = log /\ idx' = idx)]_vars

\* exec returned an error while an existing input and a link were still to
\* be processed
C11_Witness ==
    /\ result = "err" /\ errno # ""
    /\ idx < Len(inputs)
    /\ Resolve(fs, inputs[idx + 1]).st = "ok"
    /\ \E p \in DOMAIN fs : fs[p].kind = "link"
    /\ Len(log) > 0

(***************************************************************************)
(* C12: a symbolic link whose target is missing is treated in two ways.    *)
(* As a top-level input it gets the line SKIP INPUT and exec goes on       *)
(* without an error; met as an entry while a real directory is descended,  *)
(* it makes exec return the error of the failed canonicalization (ENOENT), *)
(* and the link is still there and no line was written for it.             *)
(***************************************************************************)
\* p names a link and following it ends at a missing entry
BrokenLink(f, p) == IsSymlink(f, p) /\ Resolve(f, p).st = "ENOENT"

BrokenInputStep ==
    LET path == inputs[idx + 1]
    IN  /\ Len(log') = Len(log) + 1
        /\ Text(log'[Len(log')]) = [kind |-> "SKIP INPUT", dest |-> path, path |-> path]
        /\ result' = "run" /\ stack' = <<>> /\ idx' = idx + 1
        /\ fs' = fs

BrokenChildStep ==
    \E name \in Top.todo :
        LET child == Append(Top.path, name)
        IN  IF BrokenLink(fs, child)
            THEN /\ Aborted("ENOENT")
                 /\ IsSymlink(fs', child)
            ELSE \/ result' = "err" /\ errno' # "ENOENT"
                 \/ /\ result' = "run"
                    /\ Len(stack') = Len(stack) + 1
                    /\ stack'[Len(stack')].entry = child

C12_BrokenLinkAsymmetry ==
    [][/\ (result = "run" /\ stack = <<>> /\ idx < Len(inputs)
            /\ BrokenLink(fs, inputs[idx + 1])) => BrokenInputStep
       /\ (At("descend") /\ Top.todo # {}) => BrokenChildStep]_vars

\* the same broken link was skipped as the first input and then, met in the
\* descent of the second input, made exec return the error
C12_Witness ==
    /\ result = "err" /\ errno = "ENOENT"
    /\ idx = 2
    /\ BrokenLink(fs, inputs[1])
    /\ Len(inputs[1]) > 0 /\ Parent(inputs[1]) = inputs[2]
    /\ Texts(Sink) = OneLine("SKIP INPUT", inputs[1])

(***************************************************************************)
(* C13: a link is replaced in the order report line, removal, creation.    *)
(* The removal step comes right after the COPY or POPULATE line of the     *)
(* path and succeeds when the entry is absent already; the creation step   *)
(* finds no entry at the path (the old link is gone) and puts the regular  *)
(* file or the directory there; and a link that was removed is never there *)
(* again, whether the run ends in Ok or in an error.                       *)
(***************************************************************************)
\* the line of the replacement the innermost call is making
ReplacementLine(kind) == [kind |-> kind, dest |-> Top.dest, path |-> Top.path]
LastOf(l) == l[Len(l)]

RemovalStep(kind, next) ==
    LET l == Locate(fs, Top.path)
    IN  /\ Len(log) > 0 /\ Text(LastOf(log)) = ReplacementLine(kind)
        /\ l.st = "ENOENT" =>
              /\ fs' = fs /\ log' = log /\ result' = "run"
              /\ LastOf(stack').pc = next
        /\ (l.st = "ok" /\ fs[l.p].kind # "dir") =>
              /\ fs' = Without(fs, l.p) /\ result' = "run"
              /\ Len(log') = Len(log) + 1
              /\ LastOf(log').kind = "remove" /\ LastOf(log').at = l.p
              /\ LastOf(stack').pc = next

CreationStep(line, kind, made) ==
    LET l == Locate(fs, Top.path)
    IN  /\ l.st = "ENOENT"
        /\ Len(Sink) > 0 /\ Text(LastOf(Sink)) = ReplacementLine(line)
        /\ LastOf(log).kind \in {line, "remove"}
        /\ result' = "run" =>
              /\ DOMAIN fs' = DOMAIN fs \cup {l.p}
              /\ fs'[l.p].kind = made
              /\ \A q \in DOMAIN fs : fs'[q] = fs[q]
              /\ Len(log') = Len(log) + 1
              /\ LastOf(log').kind = kind /\ LastOf(log').at = l.p

\* no removed link is in its place again
NotRestored ==
    \A i \in 1..Len(log) :
        log[i].kind = "remove" =>
            ~(log[i].at \in DOMAIN fs /\ fs[log[i].at].kind = "link")

C13_ReplacementProtocol ==
    [][/\ At("copy_remove") => RemovalStep("COPY", "copy_copy")
       /\ At("populate_remove") => RemovalStep("POPULATE", "populate_create")
       /\ At("copy_copy") => CreationStep("COPY", "copy", "file")
       /\ At("populate_create") => CreationStep("POPULATE", "create_dir", "dir")
       /\ NotRestored']_vars

\* exec returned an error after a link to a directory was removed: a
\* directory is in the link's place and lacks a member of the source
C13_Witness ==
    /\ result = "err"
    /\ \E i \in 2..Len(log) :
          /\ log[i].kind = "remove" /\ log[i - 1].kind = "POPULATE"
          /\ log[i].at \in DOMAIN fs /\ fs[log[i].at].kind = "dir"
          /\ IsDir(fs, log[i - 1].dest)
          /\ Members(fs, CanonOf(fs, log[i - 1].dest)) \ Members(fs, log[i].at) # {}

(***************************************************************************)
(* C14: while a directory is being populated no guard fires.  No SKIP SELF *)
(* REFERENCE and no SKIP RECURSIVE line is written while a call of relink  *)
(* is in its populate loop, none is logged for a path beneath a directory  *)
(* populated for the same input, and the call made for a member of the     *)
(* source writes a COPY or a POPULATE line for the member, unless the run  *)
(* ends there.                                                             *)
(***************************************************************************)
GuardKinds == {"SKIP SELF REFERENCE", "SKIP RECURSIVE"}
Populating == \E i \in 1..Len(stack) : stack[i].pc = "populate"
MemberCall == At("enter") /\ Len(stack) > 1 /\ stack[Len(stack) - 1].pc = "populate"

NoGuardBeneath(l) ==
    \A i, k \in 1..Len(l) :
        (i < k /\ l[i].kind = "POPULATE" /\ SameVisit(l[i], l[k])
            /\ StartsWith(l[k].path, l[i].path))
        => l[k].kind \notin GuardKinds

C14_NoGuardInPopulate ==
    [][/\ (Len(log') > Len(log) /\ LastOf(log').kind \in GuardKinds) => ~Populating
       /\ NoGuardBeneath(log')
       /\ MemberCall =>
             /\ Top.has
             /\ \/ result' # "run"
                \/ /\ Len(log') = Len(log) + 1
                   /\ LastOf(log').kind \in Copies
                   /\ LastOf(log').path = Top.path
                   /\ LastOf(log').dest = Top.dest
                   /\ Top.path = Append(stack[Len(stack) - 1].entry,
                                        Top.dest[Len(Top.dest)])]_vars

\* a member of the source that is itself a link to a directory was populated
C14_Witness ==
    \E k \in 1..Len(log) :
        /\ log[k].kind = "POPULATE" /\ log[k].via = "populate"
        /\ IsSymlink(fs0, log[k].dest)
        /\ log[k].run = 1

(***************************************************************************)
(* C15: the path buffer.  A call of relink that returns Ok hands the       *)
(* buffer back as it got it; the populate loop starts every member with    *)
(* the buffer as it was at entry, relinks the member at the entry path     *)
(* extended by the member's own name, and every line and change of a call  *)
(* is made at the path the call was entered with (the line resolve_symlink *)
(* writes in a descent names the entry of the directory it classified).    *)
(***************************************************************************)
ReturnsOk == Running /\ result' = "run" /\ Len(stack') = Len(stack) - 1
CallsMember == At("populate") /\ Len(stack') = Len(stack) + 1

MemberFrame ==
    LET callee == LastOf(stack')
        caller == stack'[Len(stack)]
        name == callee.dest[Len(callee.dest)]
    IN  /\ Top.path = Top.entry
        /\ name \in Top.todo
        /\ callee.dest = Append(Top.dest, name)
        /\ callee.entry = Append(Top.entry, name)
        /\ callee.path = callee.entry
        /\ caller.path = callee.entry
        /\ caller.entry = Top.entry

C15_PathBufferFrame ==
    [][/\ ReturnsOk =>
             /\ Top.path = Top.entry
             /\ (Len(stack) > 1 /\ stack[Len(stack) - 1].pc = "populate") =>
                    LastOf(stack').path = LastOf(stack').entry
       /\ CallsMember => MemberFrame
       /\ (Running /\ Len(log') > Len(log)) =>
             /\ Top.path = Top.entry
             /\ IF At("descend")
                THEN \E name \in Top.todo : LastOf(log').path = Append(Top.entry, name)
                ELSE LastOf(log').path = Top.entry]_vars

\* a populate loop has relinked one member and is about to take the next
C15_Witness ==
    /\ At("populate") /\ Top.todo # {}
    /\ Top.path = Top.entry
    /\ \E k \in 1..Len(log), name \in Names :
          /\ log[k].kind \in Copies /\ SameVisit(log[k], [inp |-> idx, run |-> run])
          /\ log[k].path = Append(Top.entry, name)
          /\ name \notin Top.todo

(***************************************************************************)
(* C16: data preservation.  In every step of a run, whatever its end: an   *)
(* entry that goes is a symbolic link, no entry is changed in place, every *)
(* regular file and directory the run started with is there unchanged, and *)
(* an entry the run made is at the place of a link the run removed or      *)
(* beneath a directory the run made.                                       *)
(***************************************************************************)
\* the places of f that the run did not start with, or not as they are
MadeByRun(f) == {p \in DOMAIN f : p \notin DOMAIN fs1 \/ f[p] # fs1[p]}

Preserved(f) ==
    /\ \A p \in DOMAIN fs1 :
          fs1[p].kind \in {"file", "dir"} => (p \in DOMAIN f /\ f[p] = fs1[p])
    /\ \A p \in MadeByRun(f) :
          /\ f[p].kind \in {"file", "dir"}
          /\ \/ p \in DOMAIN fs1 /\ fs1[p].kind = "link"
             \/ Parent(p) \in MadeByRun(f) /\ f[Parent(p)].kind = "dir"

C16_DataPreserved ==
    [][/\ \A p \in DOMAIN fs \ DOMAIN fs' : fs[p].kind = "link"
       /\ \A p \in DOMAIN fs \cap DOMAIN fs' : fs'[p] = fs[p]
       /\ fs1' = fs1 => Preserved(fs')]_vars

\* exec returned an error after it had removed a link, made a directory in
\* its place and a regular file in the directory, next to files and
\* directories that were there before
C16_Witness ==
    /\ result = "err" /\ run = 1
    /\ \E p, q \in MadeByRun(fs) :
          /\ p \in DOMAIN fs1 /\ fs1[p].kind = "link" /\ fs[p].kind = "dir"
          /\ Parent(q) = p /\ fs[q].kind = "file"
    /\ \E p \in DOMAIN fs1 : fs1[p].kind = "file"

====
